---- MODULE Spec2Model ----
(***************************************************************************)
(* Model of promo_checker.py: the gift-code extractor, the entitlement     *)
(* lookup with its retry/backoff loop (check_promo_code), the batch runner  *)
(* (bulk_check_from_file), the interactive session (interactive_mode) and  *)
(* bulk mode of main.                                                      *)
(*                                                                         *)
(* Strings are sequences of characters, a character being a one-character  *)
(* string or, for a character a TLA+ string cannot hold, the string U+hhhh *)
(* of its code point ("U+00A0" is the no-break space).  JSON values and HTTP*)
(* header values are tagged tuples: <<"absent">> (key not present),        *)
(* <<"null">>, <<"bool", b>>, <<"int", n>>, <<"str", s>>, <<"obj", ...>>,  *)
(* <<"bad">> (a header that is not an integer literal).                    *)
(***************************************************************************)
EXTENDS Integers, Sequences, FiniteSets, TLC

VARIABLES
    mode,          \* the run: "check", "backoff" (one lookup), "batch",
                   \* "session", "main" or "extract"
    jsonErrCaught, \* build: response.json() failure is a RequestException
    cpc,           \* check_promo_code: "idle", "loop", "returned", "raised"
    code,          \* check_promo_code: parameter code
    debug,         \* check_promo_code: parameter debug
    maxRetries,    \* check_promo_code: parameter max_retries
    attempt,       \* check_promo_code: loop variable attempt
    result,        \* check_promo_code: returned dict, <<>> while none
    exc,           \* the exception that escaped check_promo_code or the
                   \* batch's time.sleep, "" while none
    log,           \* check_promo_code: GETs and sleeps of the current call
    bpc,           \* bulk_check_from_file: position; "crashed" when the
                   \* lookup raised, "sleep_raised" when time.sleep did
    fileExists,    \* bulk_check_from_file: os.path.exists(filename)
    lines,         \* bulk_check_from_file: f.readlines()
    delay,         \* bulk_check_from_file: parameter delay, a float
    codesToCheck,  \* bulk_check_from_file: codes_to_check
    idx,           \* bulk_check_from_file: loop variable i
    results,       \* bulk_check_from_file: results dict of five lists
    calls,         \* bulk_check_from_file: (code, debug) of each lookup made
    outcomes,      \* bulk_check_from_file: the dicts line 177 received, in order
    batchLog,      \* bulk_check_from_file: lookups and inter-code sleeps
    saved,         \* save_results: reports written
    upc,           \* position of the caller: interactive_mode, main or a
                   \* direct call of extract_gift_code; "idle" otherwise
    inputText,     \* extract_gift_code: parameter text
    extracted,     \* extract_gift_code: returned value
    delayInput,    \* main: what input() returns at the delay prompt
    handedDelay,   \* main: delay passed to bulk_check_from_file
    debugMode,     \* interactive_mode: debug_mode
    entered,       \* interactive_mode: the lines input() has returned so far
    lookups        \* interactive_mode: (code, debug, line number) per lookup

vars == <<mode, jsonErrCaught, cpc, code, debug, maxRetries, attempt, result,
          exc, log, bpc, fileExists, lines, delay, codesToCheck, idx,
          results, calls, outcomes, batchLog, saved, upc, inputText,
          extracted,
          delayInput, handedDelay, debugMode, entered, lookups>>

checkVars == <<cpc, code, debug, maxRetries, attempt, result, exc, log>>
batchVars == <<bpc, fileExists, lines, delay, codesToCheck, idx, results,
               calls, outcomes, batchLog, saved>>
uiVars == <<upc, inputText, extracted, delayInput, handedDelay, debugMode, entered,
            lookups>>
outerVars == <<batchVars, uiVars>>

(***************************************************************************)
(* Bounds of the model.                                                    *)
(***************************************************************************)
MaxRetriesBound == 3
NegativeRetries == 1
MaxBackoffRetries == 5
MaxLines == 3
MaxInputs == 3

(***************************************************************************)
(* Program constants.                                                      *)
(***************************************************************************)
MinCodeLen == 16
MaxCodeLen == 25
DefaultMaxRetries == 3
DefaultRetryAfter == 3
RateLimitCap == 30
NetworkBase == 2
NetworkCap == 10
DefaultDelay == 25
MaxDelay == 60

Min(a, b) == IF a <= b THEN a ELSE b

RECURSIVE Pow2(_)
Pow2(n) == IF n <= 0 THEN 1 ELSE 2 * Pow2(n - 1)

(***************************************************************************)
(* Characters and strings.                                                 *)
(***************************************************************************)
Lower == {"a","b","c","d","e","f","g","h","i","j","k","l","m",
          "n","o","p","q","r","s","t","u","v","w","x","y","z"}
Upper == {"A","B","C","D","E","F","G","H","I","J","K","L","M",
          "N","O","P","Q","R","S","T","U","V","W","X","Y","Z"}
Digit == {"0","1","2","3","4","5","6","7","8","9"}
Alnum == Lower \cup Upper \cup Digit
\* the characters str.strip() removes: those str.isspace() holds for
Whitespace ==
    {"\t", "\n", "U+000B", "\f", "\r", "U+001C", "U+001D", "U+001E", "U+001F",
     " ", "U+0085", "U+00A0", "U+1680", "U+2000", "U+2001", "U+2002",
     "U+2003", "U+2004", "U+2005", "U+2006", "U+2007", "U+2008", "U+2009",
     "U+200A", "U+2028", "U+2029", "U+202F", "U+205F", "U+3000"}

\* str.strip()
RECURSIVE LStrip(_)
LStrip(s) == IF s # <<>> /\ Head(s) \in Whitespace THEN LStrip(Tail(s)) ELSE s

RECURSIVE RStrip(_)
RStrip(s) ==
    IF s # <<>> /\ s[Len(s)] \in Whitespace
    THEN RStrip(SubSeq(s, 1, Len(s) - 1))
    ELSE s

Strip(s) == RStrip(LStrip(s))

\* str.lower(): of the characters outside ASCII only the Kelvin sign and the
\* dotted capital I have ASCII in their lower-case form ('k', and 'i' with
\* a combining dot); the others that have a lower-case form have it outside
\* ASCII and are left in place, so that the result differs from every ASCII
\* word as it does in Python
UpperSeq == <<"A","B","C","D","E","F","G","H","I","J","K","L","M",
              "N","O","P","Q","R","S","T","U","V","W","X","Y","Z">>
LowerSeq == <<"a","b","c","d","e","f","g","h","i","j","k","l","m",
              "n","o","p","q","r","s","t","u","v","w","x","y","z">>
LowerOf(c) ==
    IF c \in Upper
    THEN <<LowerSeq[CHOOSE k \in 1..Len(UpperSeq) : UpperSeq[k] = c]>>
    ELSE IF c = "U+212A" THEN <<"k">>
    ELSE IF c = "U+0130" THEN <<"i", "U+0307">>
    ELSE <<c>>

RECURSIVE Lowercase(_)
Lowercase(s) == IF s = <<>> THEN <<>> ELSE LowerOf(Head(s)) \o Lowercase(Tail(s))

\* str.startswith(prefix)
StartsWith(s, prefix) ==
    Len(s) >= Len(prefix) /\ SubSeq(s, 1, Len(prefix)) = prefix

\* number of consecutive [A-Za-z0-9] characters of text from position i on
RECURSIVE AlnumRun(_, _)
AlnumRun(text, i) ==
    IF i <= Len(text) /\ text[i] \in Alnum THEN 1 + AlnumRun(text, i + 1) ELSE 0

\* Python None as returned by extract_gift_code (falsy, like the empty string)
NoCode == <<>>

\* re.search(prefix + '([A-Za-z0-9]{16,25})', text): group 1 of the leftmost
\* match, the quantifier being greedy; NoCode when there is no match
SearchPattern(prefix, text) ==
    LET lp == Len(prefix)
        hits == {i \in 1..Len(text) :
                    /\ i + lp - 1 <= Len(text)
                    /\ text[i] = prefix[1]
                    /\ SubSeq(text, i, i + lp - 1) = prefix
                    /\ AlnumRun(text, i + lp) >= MinCodeLen}
    IN  IF hits = {} THEN NoCode
        ELSE LET i == CHOOSE h \in hits : \A g \in hits : h <= g
                 n == Min(AlnumRun(text, i + lp), MaxCodeLen)
             IN  SubSeq(text, i + lp, i + lp + n - 1)

\* re.match(r'^[A-Za-z0-9]{16,25}$', s)
FullMatch(s) ==
    /\ Len(s) >= MinCodeLen
    /\ Len(s) <= MaxCodeLen
    /\ \A i \in 1..Len(s) : s[i] \in Alnum

Patterns ==
    << <<"d","i","s","c","o","r","d",".","g","i","f","t","/">>,
       <<"d","i","s","c","o","r","d",".","c","o","m","/","g","i","f","t","s","/">>,
       <<"d","i","s","c","o","r","d","a","p","p",".","c","o","m","/","g","i","f","t","s","/">>,
       <<"p","r","o","m","o","s",".","d","i","s","c","o","r","d",".","g","g","/">> >>

RECURSIVE FirstPattern(_, _)
FirstPattern(k, text) ==
    IF k > Len(Patterns) THEN NoCode
    ELSE LET group1 == SearchPattern(Patterns[k], text)
         IN  IF group1 # NoCode THEN group1 ELSE FirstPattern(k + 1, text)

extract_gift_code(text) ==
    LET fromURL == FirstPattern(1, text)
        stripped == Strip(text)
    IN  IF fromURL # NoCode THEN fromURL
        ELSE IF FullMatch(stripped) THEN stripped
        ELSE NoCode

(***************************************************************************)
(* JSON values as Python sees them.                                        *)
(***************************************************************************)
Absent == <<"absent">>
Null == <<"null">>
JInt(n) == <<"int", n>>
JBool(b) == <<"bool", b>>
JStr(s) == <<"str", s>>

\* dict.get(key, default) on a decoded JSON object
Get(obj, key, default) ==
    IF key \in DOMAIN obj /\ obj[key] # Absent THEN obj[key] ELSE default

\* truth value of a JSON value in a Python condition: None, False, 0, ''
\* and {} are false (an object is written <<"obj", member>> with its one
\* member, <<"obj", Absent>> being {})
Truthy(v) ==
    CASE v[1] = "bool" -> v[2]
      [] v[1] = "int" -> v[2] # 0
      [] v[1] = "str" -> v[2] # ""
      [] v[1] = "obj" -> v[2] # Absent
      [] OTHER -> FALSE

\* v orders against an int: an int or a bool does, a comparison of None, a
\* str or a dict with an int raises TypeError
Comparable(v) == v[1] \in {"int", "bool"}

\* the number a comparable value is compared as: True is 1, False is 0
Num(v) == IF v[1] = "bool" THEN (IF v[2] THEN 1 ELSE 0) ELSE v[2]

(***************************************************************************)
(* Python floats.                                                          *)
(*                                                                         *)
(* A float is <<"num", n, d>> for the number n / d (d a power of ten),     *)
(* <<"inf", negative>> or <<"nan">>.  A literal is read exactly; literals  *)
(* whose digits or exponent take n or d beyond 32-bit integers, where a    *)
(* float would round, overflow to inf or underflow to 0, are not among the *)
(* inputs.                                                                 *)
(***************************************************************************)
RECURSIVE Pow10(_)
Pow10(n) == IF n <= 0 THEN 1 ELSE 10 * Pow10(n - 1)

\* the position of the first character of s that is in set S, 0 if none
FirstIn(s, S) ==
    IF \E i \in 1..Len(s) : s[i] \in S
    THEN CHOOSE i \in 1..Len(s) : s[i] \in S /\ \A k \in 1..(i - 1) : s[k] \notin S
    ELSE 0

\* the characters float() reads as a digit: the decimal digits (category
\* Nd) of every script in the Unicode database of Python 3.11, one row per
\* script, each row in the order 0 to 9
DecimalDigits ==
    << <<"0","1","2","3","4","5","6","7","8","9">>,
       <<"U+0660","U+0661","U+0662","U+0663","U+0664","U+0665","U+0666","U+0667","U+0668","U+0669">>,
       <<"U+06F0","U+06F1","U+06F2","U+06F3","U+06F4","U+06F5","U+06F6","U+06F7","U+06F8","U+06F9">>,
       <<"U+07C0","U+07C1","U+07C2","U+07C3","U+07C4","U+07C5","U+07C6","U+07C7","U+07C8","U+07C9">>,
       <<"U+0966","U+0967","U+0968","U+0969","U+096A","U+096B","U+096C","U+096D","U+096E","U+096F">>,
       <<"U+09E6","U+09E7","U+09E8","U+09E9","U+09EA","U+09EB","U+09EC","U+09ED","U+09EE","U+09EF">>,
       <<"U+0A66","U+0A67","U+0A68","U+0A69","U+0A6A","U+0A6B","U+0A6C","U+0A6D","U+0A6E","U+0A6F">>,
       <<"U+0AE6","U+0AE7","U+0AE8","U+0AE9","U+0AEA","U+0AEB","U+0AEC","U+0AED","U+0AEE","U+0AEF">>,
       <<"U+0B66","U+0B67","U+0B68","U+0B69","U+0B6A","U+0B6B","U+0B6C","U+0B6D","U+0B6E","U+0B6F">>,
       <<"U+0BE6","U+0BE7","U+0BE8","U+0BE9","U+0BEA","U+0BEB","U+0BEC","U+0BED","U+0BEE","U+0BEF">>,
       <<"U+0C66","U+0C67","U+0C68","U+0C69","U+0C6A","U+0C6B","U+0C6C","U+0C6D","U+0C6E","U+0C6F">>,
       <<"U+0CE6","U+0CE7","U+0CE8","U+0CE9","U+0CEA","U+0CEB","U+0CEC","U+0CED","U+0CEE","U+0CEF">>,
       <<"U+0D66","U+0D67","U+0D68","U+0D69","U+0D6A","U+0D6B","U+0D6C","U+0D6D","U+0D6E","U+0D6F">>,
       <<"U+0DE6","U+0DE7","U+0DE8","U+0DE9","U+0DEA","U+0DEB","U+0DEC","U+0DED","U+0DEE","U+0DEF">>,
       <<"U+0E50","U+0E51","U+0E52","U+0E53","U+0E54","U+0E55","U+0E56","U+0E57","U+0E58","U+0E59">>,
       <<"U+0ED0","U+0ED1","U+0ED2","U+0ED3","U+0ED4","U+0ED5","U+0ED6","U+0ED7","U+0ED8","U+0ED9">>,
       <<"U+0F20","U+0F21","U+0F22","U+0F23","U+0F24","U+0F25","U+0F26","U+0F27","U+0F28","U+0F29">>,
       <<"U+1040","U+1041","U+1042","U+1043","U+1044","U+1045","U+1046","U+1047","U+1048","U+1049">>,
       <<"U+1090","U+1091","U+1092","U+1093","U+1094","U+1095","U+1096","U+1097","U+1098","U+1099">>,
       <<"U+17E0","U+17E1","U+17E2","U+17E3","U+17E4","U+17E5","U+17E6","U+17E7","U+17E8","U+17E9">>,
       <<"U+1810","U+1811","U+1812","U+1813","U+1814","U+1815","U+1816","U+1817","U+1818","U+1819">>,
       <<"U+1946","U+1947","U+1948","U+1949","U+194A","U+194B","U+194C","U+194D","U+194E","U+194F">>,
       <<"U+19D0","U+19D1","U+19D2","U+19D3","U+19D4","U+19D5","U+19D6","U+19D7","U+19D8","U+19D9">>,
       <<"U+1A80","U+1A81","U+1A82","U+1A83","U+1A84","U+1A85","U+1A86","U+1A87","U+1A88","U+1A89">>,
       <<"U+1A90","U+1A91","U+1A92","U+1A93","U+1A94","U+1A95","U+1A96","U+1A97","U+1A98","U+1A99">>,
       <<"U+1B50","U+1B51","U+1B52","U+1B53","U+1B54","U+1B55","U+1B56","U+1B57","U+1B58","U+1B59">>,
       <<"U+1BB0","U+1BB1","U+1BB2","U+1BB3","U+1BB4","U+1BB5","U+1BB6","U+1BB7","U+1BB8","U+1BB9">>,
       <<"U+1C40","U+1C41","U+1C42","U+1C43","U+1C44","U+1C45","U+1C46","U+1C47","U+1C48","U+1C49">>,
       <<"U+1C50","U+1C51","U+1C52","U+1C53","U+1C54","U+1C55","U+1C56","U+1C57","U+1C58","U+1C59">>,
       <<"U+A620","U+A621","U+A622","U+A623","U+A624","U+A625","U+A626","U+A627","U+A628","U+A629">>,
       <<"U+A8D0","U+A8D1","U+A8D2","U+A8D3","U+A8D4","U+A8D5","U+A8D6","U+A8D7","U+A8D8","U+A8D9">>,
       <<"U+A900","U+A901","U+A902","U+A903","U+A904","U+A905","U+A906","U+A907","U+A908","U+A909">>,
       <<"U+A9D0","U+A9D1","U+A9D2","U+A9D3","U+A9D4","U+A9D5","U+A9D6","U+A9D7","U+A9D8","U+A9D9">>,
       <<"U+A9F0","U+A9F1","U+A9F2","U+A9F3","U+A9F4","U+A9F5","U+A9F6","U+A9F7","U+A9F8","U+A9F9">>,
       <<"U+AA50","U+AA51","U+AA52","U+AA53","U+AA54","U+AA55","U+AA56","U+AA57","U+AA58","U+AA59">>,
       <<"U+ABF0","U+ABF1","U+ABF2","U+ABF3","U+ABF4","U+ABF5","U+ABF6","U+ABF7","U+ABF8","U+ABF9">>,
       <<"U+FF10","U+FF11","U+FF12","U+FF13","U+FF14","U+FF15","U+FF16","U+FF17","U+FF18","U+FF19">>,
       <<"U+104A0","U+104A1","U+104A2","U+104A3","U+104A4","U+104A5","U+104A6","U+104A7","U+104A8","U+104A9">>,
       <<"U+10D30","U+10D31","U+10D32","U+10D33","U+10D34","U+10D35","U+10D36","U+10D37","U+10D38","U+10D39">>,
       <<"U+11066","U+11067","U+11068","U+11069","U+1106A","U+1106B","U+1106C","U+1106D","U+1106E","U+1106F">>,
       <<"U+110F0","U+110F1","U+110F2","U+110F3","U+110F4","U+110F5","U+110F6","U+110F7","U+110F8","U+110F9">>,
       <<"U+11136","U+11137","U+11138","U+11139","U+1113A","U+1113B","U+1113C","U+1113D","U+1113E","U+1113F">>,
       <<"U+111D0","U+111D1","U+111D2","U+111D3","U+111D4","U+111D5","U+111D6","U+111D7","U+111D8","U+111D9">>,
       <<"U+112F0","U+112F1","U+112F2","U+112F3","U+112F4","U+112F5","U+112F6","U+112F7","U+112F8","U+112F9">>,
       <<"U+11450","U+11451","U+11452","U+11453","U+11454","U+11455","U+11456","U+11457","U+11458","U+11459">>,
       <<"U+114D0","U+114D1","U+114D2","U+114D3","U+114D4","U+114D5","U+114D6","U+114D7","U+114D8","U+114D9">>,
       <<"U+11650","U+11651","U+11652","U+11653","U+11654","U+11655","U+11656","U+11657","U+11658","U+11659">>,
       <<"U+116C0","U+116C1","U+116C2","U+116C3","U+116C4","U+116C5","U+116C6","U+116C7","U+116C8","U+116C9">>,
       <<"U+11730","U+11731","U+11732","U+11733","U+11734","U+11735","U+11736","U+11737","U+11738","U+11739">>,
       <<"U+118E0","U+118E1","U+118E2","U+118E3","U+118E4","U+118E5","U+118E6","U+118E7","U+118E8","U+118E9">>,
       <<"U+11950","U+11951","U+11952","U+11953","U+11954","U+11955","U+11956","U+11957","U+11958","U+11959">>,
       <<"U+11C50","U+11C51","U+11C52","U+11C53","U+11C54","U+11C55","U+11C56","U+11C57","U+11C58","U+11C59">>,
       <<"U+11D50","U+11D51","U+11D52","U+11D53","U+11D54","U+11D55","U+11D56","U+11D57","U+11D58","U+11D59">>,
       <<"U+11DA0","U+11DA1","U+11DA2","U+11DA3","U+11DA4","U+11DA5","U+11DA6","U+11DA7","U+11DA8","U+11DA9">>,
       <<"U+16A60","U+16A61","U+16A62","U+16A63","U+16A64","U+16A65","U+16A66","U+16A67","U+16A68","U+16A69">>,
       <<"U+16AC0","U+16AC1","U+16AC2","U+16AC3","U+16AC4","U+16AC5","U+16AC6","U+16AC7","U+16AC8","U+16AC9">>,
       <<"U+16B50","U+16B51","U+16B52","U+16B53","U+16B54","U+16B55","U+16B56","U+16B57","U+16B58","U+16B59">>,
       <<"U+1D7CE","U+1D7CF","U+1D7D0","U+1D7D1","U+1D7D2","U+1D7D3","U+1D7D4","U+1D7D5","U+1D7D6","U+1D7D7">>,
       <<"U+1D7D8","U+1D7D9","U+1D7DA","U+1D7DB","U+1D7DC","U+1D7DD","U+1D7DE","U+1D7DF","U+1D7E0","U+1D7E1">>,
       <<"U+1D7E2","U+1D7E3","U+1D7E4","U+1D7E5","U+1D7E6","U+1D7E7","U+1D7E8","U+1D7E9","U+1D7EA","U+1D7EB">>,
       <<"U+1D7EC","U+1D7ED","U+1D7EE","U+1D7EF","U+1D7F0","U+1D7F1","U+1D7F2","U+1D7F3","U+1D7F4","U+1D7F5">>,
       <<"U+1D7F6","U+1D7F7","U+1D7F8","U+1D7F9","U+1D7FA","U+1D7FB","U+1D7FC","U+1D7FD","U+1D7FE","U+1D7FF">>,
       <<"U+1E140","U+1E141","U+1E142","U+1E143","U+1E144","U+1E145","U+1E146","U+1E147","U+1E148","U+1E149">>,
       <<"U+1E2F0","U+1E2F1","U+1E2F2","U+1E2F3","U+1E2F4","U+1E2F5","U+1E2F6","U+1E2F7","U+1E2F8","U+1E2F9">>,
       <<"U+1E950","U+1E951","U+1E952","U+1E953","U+1E954","U+1E955","U+1E956","U+1E957","U+1E958","U+1E959">>,
       <<"U+1FBF0","U+1FBF1","U+1FBF2","U+1FBF3","U+1FBF4","U+1FBF5","U+1FBF6","U+1FBF7","U+1FBF8","U+1FBF9">> >>

DecimalDigit ==
    {DecimalDigits[r][k] : r \in 1..Len(DecimalDigits), k \in 1..10}

\* digits, single underscores allowed between two digits
DigitPart(p) ==
    /\ p # <<>>
    /\ \A i \in 1..Len(p) :
          \/ p[i] \in DecimalDigit
          \/ /\ p[i] = "_"
             /\ i > 1 /\ i < Len(p)
             /\ p[i - 1] \in DecimalDigit /\ p[i + 1] \in DecimalDigit

\* the digit value of a decimal digit of any script
DigitValue(c) ==
    CHOOSE v \in 0..9 : \E r \in 1..Len(DecimalDigits) : DecimalDigits[r][v + 1] = c

RECURSIVE DigitsValue(_)
DigitsValue(p) ==
    IF p = <<>> THEN 0
    ELSE IF p[Len(p)] = "_" THEN DigitsValue(SubSeq(p, 1, Len(p) - 1))
    ELSE 10 * DigitsValue(SubSeq(p, 1, Len(p) - 1)) + DigitValue(p[Len(p)])

NumDigits(p) == Cardinality({i \in 1..Len(p) : p[i] \in DecimalDigit})

ValueError == <<"ValueError">>
NaN == <<"nan">>

\* float() of a decimal literal without sign: mantissa, optional exponent
Decimal(body, negative) ==
    LET ePos == FirstIn(body, {"e", "E"})
        mant == IF ePos = 0 THEN body ELSE SubSeq(body, 1, ePos - 1)
        expo == IF ePos = 0 THEN <<>> ELSE SubSeq(body, ePos + 1, Len(body))
        eNeg == expo # <<>> /\ expo[1] = "-"
        eDigits == IF expo # <<>> /\ expo[1] \in {"+", "-"} THEN Tail(expo) ELSE expo
        dot == FirstIn(mant, {"."})
        intPart == IF dot = 0 THEN mant ELSE SubSeq(mant, 1, dot - 1)
        fracPart == IF dot = 0 THEN <<>> ELSE SubSeq(mant, dot + 1, Len(mant))
        wellFormed ==
            /\ intPart = <<>> \/ DigitPart(intPart)
            /\ fracPart = <<>> \/ DigitPart(fracPart)
            /\ intPart # <<>> \/ fracPart # <<>>
            /\ ePos = 0 \/ DigitPart(eDigits)
        fd == NumDigits(fracPart)
        m == DigitsValue(intPart) * Pow10(fd) + DigitsValue(fracPart)
        e == DigitsValue(eDigits)
    IN  IF ~wellFormed THEN ValueError
        ELSE <<"num",
               (IF negative THEN -1 ELSE 1) * m * (IF eNeg THEN 1 ELSE Pow10(e)),
               Pow10(fd) * (IF eNeg THEN Pow10(e) ELSE 1)>>

\* float(s) for a string without surrounding whitespace
ParseFloat(s) ==
    LET signed == s # <<>> /\ s[1] \in {"+", "-"}
        negative == s # <<>> /\ s[1] = "-"
        body == IF signed THEN Tail(s) ELSE s
        low == Lowercase(body)
    IN  IF low \in { <<"i","n","f">>, <<"i","n","f","i","n","i","t","y">> }
        THEN <<"inf", negative>>
        ELSE IF low = <<"n","a","n">> THEN NaN
        ELSE Decimal(body, negative)

\* delay < x for a float delay and an integer x; False for nan
LessThan(v, x) ==
    CASE v[1] = "num" -> v[2] < x * v[3]
      [] v[1] = "inf" -> v[2]
      [] OTHER -> FALSE

\* delay > x for a float delay and an integer x; False for nan
GreaterThan(v, x) ==
    CASE v[1] = "num" -> v[2] > x * v[3]
      [] v[1] = "inf" -> ~v[2]
      [] OTHER -> FALSE

\* time.sleep(secs): the exception it raises, "" when it sleeps (nan and a
\* negative number are a ValueError, an infinity does not fit a timestamp)
SleepRaises(secs) ==
    CASE secs = NaN -> "ValueError"
      [] secs[1] = "num" /\ secs[2] < 0 -> "ValueError"
      [] secs[1] = "inf" -> "OverflowError"
      [] OTHER -> ""

(***************************************************************************)
(* Remote behaviours offered to one GET.                                   *)
(***************************************************************************)
RedeemedValues == {Absent, JBool(TRUE), JBool(FALSE)}
UsesValues == {Absent, Null, JInt(0), JInt(1)}
MaxUsesValues == {Absent, Null, JInt(1), JInt(2)}
PlanValues == {Absent, Null, <<"obj", JStr("Nitro")>>}
RetryAfterValues == {Absent, <<"bad">>, JInt(-1), JInt(20)}
FailureDescriptions == {"ConnectionError", "Timeout"}

MalformedBodies == {<<"empty">>, <<"nonjson">>, <<"nonobj">>}

GiftBodies ==
    {<<"obj", [redeemed |-> r, uses |-> u, max_uses |-> m, subscription_plan |-> p]>> :
        r \in RedeemedValues, u \in UsesValues, m \in MaxUsesValues, p \in PlanValues}

ErrorBodies ==
    {<<"obj", [message |-> msg]>> : msg \in {Absent, JStr("Server Error")}}

Http(status, retryAfter, body) ==
    [kind |-> "http", status |-> status, retryAfter |-> retryAfter, body |-> body]

TransportFailures == {[kind |-> "fail", desc |-> d] : d \in FailureDescriptions}

\* 200 bodies whose redeemed or uses is of another JSON type than the
\* endpoint documents: {"redeemed": {"name": "x"}}, {"redeemed": {}},
\* {"uses": true, "max_uses": 1}, {"uses": "1", "max_uses": 1}
LooseBodies ==
    { <<"obj", [redeemed |-> <<"obj", JStr("x")>>, uses |-> Absent,
                max_uses |-> Absent, subscription_plan |-> Absent]>>,
      <<"obj", [redeemed |-> <<"obj", Absent>>, uses |-> Absent,
                max_uses |-> Absent, subscription_plan |-> Absent]>>,
      <<"obj", [redeemed |-> Absent, uses |-> JBool(TRUE),
                max_uses |-> JInt(1), subscription_plan |-> Absent]>>,
      <<"obj", [redeemed |-> Absent, uses |-> JStr("1"),
                max_uses |-> JInt(1), subscription_plan |-> Absent]>> }

AllResponses ==
    {Http(200, Absent, b) :
        b \in {<<"nonjson">>, <<"nonobj">>} \cup GiftBodies \cup LooseBodies}
    \cup {Http(404, Absent, <<"empty">>)}
    \cup {Http(429, h, <<"empty">>) : h \in RetryAfterValues}
    \cup {Http(500, Absent, b) : b \in MalformedBodies \cup ErrorBodies}
    \cup TransportFailures

\* one remote behaviour per branch of the lookup, for runs over many codes
\* (every body is JSON here, so jsonErrCaught is not read in such a run)
FewResponses ==
    { Http(200, Absent, <<"obj", [redeemed |-> Absent, uses |-> Absent,
                                  max_uses |-> Absent, subscription_plan |-> Absent]>>),
      Http(200, Absent, <<"obj", [redeemed |-> JBool(TRUE), uses |-> JInt(1),
                                  max_uses |-> JInt(1),
                                  subscription_plan |-> <<"obj", JStr("Nitro")>>]>>),
      Http(200, Absent, <<"obj", [redeemed |-> Absent, uses |-> Absent,
                                  max_uses |-> Absent, subscription_plan |-> Null]>>),
      Http(404, Absent, <<"empty">>),
      Http(429, Absent, <<"empty">>),
      Http(500, Absent, <<"empty">>),
      [kind |-> "fail", desc |-> "Timeout"] }

\* a remote that mostly throttles or fails, for lookups with many attempts
RetryResponses ==
    {Http(429, h, <<"empty">>) : h \in RetryAfterValues \cup {JInt(0), JInt(1)}}
    \cup TransportFailures
    \cup { Http(200, Absent, <<"nonjson">>),
           Http(200, Absent, <<"obj", [redeemed |-> Absent, uses |-> Absent,
                                       max_uses |-> Absent,
                                       subscription_plan |-> Absent]>>),
           Http(404, Absent, <<"empty">>),
           Http(500, Absent, <<"empty">>) }

Responses ==
    CASE mode \in {"batch", "session", "main"} -> FewResponses
      [] mode = "backoff" -> RetryResponses
      [] OTHER -> AllResponses

WithStatus(s) == {r \in Responses : r.kind = "http" /\ r.status = s}
OtherStatus == {r \in Responses : r.kind = "http" /\ r.status \notin {200, 404, 429}}
Failures == {r \in Responses : r.kind = "fail"}

(***************************************************************************)
(* check_promo_code                                                        *)
(***************************************************************************)
NoResult == <<>>

GetEvent(resp) == [ev |-> "get", resp |-> resp]
SleepEvent(secs) == [ev |-> "sleep", secs |-> secs]

\* response.json(): "ok" with the decoded object, "jsonerror" when the body is
\* not JSON, "nonobj" when it decodes to something that has no .get
Decoded(body) ==
    CASE body[1] = "obj" -> [t |-> "ok", data |-> body[2]]
      [] body[1] = "nonobj" -> [t |-> "nonobj"]
      [] OTHER -> [t |-> "jsonerror"]

\* line 73 keeping the body whatever debug is
RawData_Always(dbg, body) == body

\* line 73: data if debug else None
RawData(dbg, body) == IF dbg THEN body ELSE Null

\* lines 46-74: the dict returned for a decoded 200 body, or the exception
\* the evaluation raises
Classify200(c, dbg, body) ==
    LET data == body[2]
        is_redeemed == Get(data, "redeemed", JBool(FALSE))
        uses == Get(data, "uses", JInt(0))
        max_uses == Get(data, "max_uses", JInt(1))
        plan_info == Get(data, "subscription_plan", <<"obj", Absent>>)
        plan_name == IF plan_info[2] = Absent THEN JStr("Unknown") ELSE plan_info[2]
        claimed == Truthy(is_redeemed) \/ Num(uses) >= Num(max_uses)
        status == IF claimed THEN "CLAIMED" ELSE "CLAIMABLE"
        extra == IF Num(uses) > 0 \/ Num(max_uses) > 1
                 THEN <<uses, max_uses>> ELSE <<>>
    IN  IF plan_info[1] # "obj" THEN [t |-> "raise", exc |-> "AttributeError"]
        ELSE IF ~Truthy(is_redeemed) /\ ~(Comparable(uses) /\ Comparable(max_uses))
        THEN [t |-> "raise", exc |-> "TypeError"]
        ELSE IF ~Comparable(uses) THEN [t |-> "raise", exc |-> "TypeError"]
        ELSE IF ~(Num(uses) > 0) /\ ~Comparable(max_uses)
        THEN [t |-> "raise", exc |-> "TypeError"]
        ELSE [t |-> "return",
              result |-> [code |-> c, valid |-> TRUE, status |-> status,
                          plan |-> plan_name, uses |-> uses, max_uses |-> max_uses,
                          message |-> <<"Code is", status, plan_name, extra>>,
                          raw_data |-> RawData(dbg, body)]]

Invalid(c) ==
    [code |-> c, valid |-> FALSE, status |-> "INVALID", plan |-> JStr("N/A"),
     message |-> <<"Code is INVALID (Unknown Gift Code)">>]

\* lines 95-102 left out: the last 429 falls out of the loop to lines 131-138
RateLimited_FallsThrough(c) ==
    [code |-> c, valid |-> FALSE, status |-> "ERROR", plan |-> JStr("N/A"),
     message |-> <<"Max retries exceeded">>]

\* lines 95-102
RateLimited(c) ==
    [code |-> c, valid |-> FALSE, status |-> "RATE_LIMITED", plan |-> JStr("N/A"),
     message |-> <<"Rate limited - Try again later or increase delay">>]

ErrorStatus(c, error_msg) ==
    [code |-> c, valid |-> FALSE, status |-> "ERROR", plan |-> JStr("N/A"),
     message |-> <<"Error checking code", error_msg>>]

NetworkError(c, e) ==
    [code |-> c, valid |-> FALSE, status |-> "ERROR", plan |-> JStr("N/A"),
     message |-> <<"Network error", e>>]

MaxRetriesExceeded(c) ==
    [code |-> c, valid |-> FALSE, status |-> "ERROR", plan |-> JStr("N/A"),
     message |-> <<"Max retries exceeded">>]

\* line 89 without the factor 2 ** attempt
RateLimitWait_NoExponent(retry_after, k) == Min(retry_after, RateLimitCap)

\* line 89
RateLimitWait(retry_after, k) == Min(retry_after * Pow2(k), RateLimitCap)

\* line 119 without the cap
NetworkWait_NoCap(k) == NetworkBase * Pow2(k)

\* line 119
NetworkWait(k) == Min(NetworkBase * Pow2(k), NetworkCap)

\* line 87 and line 118 with max_retries for max_retries - 1
MayRetry_OneMore(k, max_retries) == k < max_retries

\* line 87 and line 118
MayRetry(k, max_retries) == k < max_retries - 1

Return(r, events) ==
    /\ cpc' = "returned"
    /\ result' = r
    /\ log' = log \o events
    /\ UNCHANGED <<attempt, exc>>

Raise(e, events) ==
    /\ cpc' = "raised"
    /\ exc' = e
    /\ log' = log \o events
    /\ UNCHANGED <<attempt, result>>

Continue(events) ==
    /\ attempt' = attempt + 1
    /\ log' = log \o events
    /\ UNCHANGED <<cpc, result, exc>>

\* lines 117-129 with the sleep of line 121 taken before the test of line 118
ExceptClause_SleepsFirst(resp, e) ==
    IF MayRetry(attempt, maxRetries)
    THEN Continue(<<GetEvent(resp), SleepEvent(NetworkWait(attempt))>>)
    ELSE Return(NetworkError(code, e),
                <<GetEvent(resp), SleepEvent(NetworkWait(attempt))>>)

\* lines 117-129: the except clause
ExceptClause(resp, e) ==
    IF MayRetry(attempt, maxRetries)
    THEN Continue(<<GetEvent(resp), SleepEvent(NetworkWait(attempt))>>)
    ELSE Return(NetworkError(code, e), <<GetEvent(resp)>>)

\* a failure of response.json(): handled by the except clause when the build
\* makes it a RequestException, an escaping ValueError otherwise
JsonError(resp) ==
    IF jsonErrCaught THEN ExceptClause(resp, "JSONDecodeError")
    ELSE Raise("ValueError", <<GetEvent(resp)>>)

InLoop == cpc = "loop" /\ attempt < maxRetries

\* lines 39-74
On200(resp) ==
    /\ InLoop
    /\ resp.kind = "http" /\ resp.status = 200
    /\ LET d == Decoded(resp.body)
       IN  CASE d.t = "jsonerror" -> JsonError(resp)
             [] d.t = "nonobj" -> Raise("AttributeError", <<GetEvent(resp)>>)
             [] OTHER ->
                  LET r == Classify200(code, debug, resp.body)
                  IN  IF r.t = "raise" THEN Raise(r.exc, <<GetEvent(resp)>>)
                      ELSE Return(r.result, <<GetEvent(resp)>>)
    /\ UNCHANGED <<mode, jsonErrCaught, code, debug, maxRetries>>

\* lines 76-84
On404(resp) ==
    /\ InLoop
    /\ resp.kind = "http" /\ resp.status = 404
    /\ Return(Invalid(code), <<GetEvent(resp)>>)
    /\ UNCHANGED <<mode, jsonErrCaught, code, debug, maxRetries>>

\* lines 86-102
On429(resp) ==
    /\ InLoop
    /\ resp.kind = "http" /\ resp.status = 429
    /\ IF MayRetry(attempt, maxRetries)
       THEN LET h == IF resp.retryAfter = Absent THEN JInt(DefaultRetryAfter)
                     ELSE resp.retryAfter
            IN  IF h[1] # "int" THEN Raise("ValueError", <<GetEvent(resp)>>)
                ELSE IF RateLimitWait(h[2], attempt) < 0
                THEN Raise("ValueError", <<GetEvent(resp)>>)
                ELSE Continue(<<GetEvent(resp),
                                SleepEvent(RateLimitWait(h[2], attempt))>>)
       ELSE Return(RateLimited(code), <<GetEvent(resp)>>)
    /\ UNCHANGED <<mode, jsonErrCaught, code, debug, maxRetries>>

\* lines 104-115
OnOtherStatus(resp) ==
    /\ InLoop
    /\ resp.kind = "http" /\ resp.status \notin {200, 404, 429}
    /\ IF resp.body = <<"empty">>
       THEN Return(ErrorStatus(code, JStr("Unknown error")), <<GetEvent(resp)>>)
       ELSE LET d == Decoded(resp.body)
            IN  CASE d.t = "jsonerror" -> JsonError(resp)
                  [] d.t = "nonobj" -> Raise("AttributeError", <<GetEvent(resp)>>)
                  [] OTHER ->
                       Return(ErrorStatus(code,
                                  Get(d.data, "message", JStr("Unknown error"))),
                              <<GetEvent(resp)>>)
    /\ UNCHANGED <<mode, jsonErrCaught, code, debug, maxRetries>>

\* line 37 raising a RequestException, then lines 117-129
OnRequestException(resp) ==
    /\ InLoop
    /\ resp.kind = "fail"
    /\ ExceptClause(resp, resp.desc)
    /\ UNCHANGED <<mode, jsonErrCaught, code, debug, maxRetries>>

\* lines 131-138: the loop ran out without returning
Fallback ==
    /\ cpc = "loop" /\ attempt >= maxRetries
    /\ Return(MaxRetriesExceeded(code), <<>>)
    /\ UNCHANGED <<mode, jsonErrCaught, code, debug, maxRetries>>

CheckAttempt ==
    \/ \E resp \in WithStatus(200) : On200(resp) /\ UNCHANGED outerVars
    \/ \E resp \in WithStatus(404) : On404(resp) /\ UNCHANGED outerVars
    \/ \E resp \in WithStatus(429) : On429(resp) /\ UNCHANGED outerVars
    \/ \E resp \in OtherStatus : OnOtherStatus(resp) /\ UNCHANGED outerVars
    \/ \E resp \in Failures : OnRequestException(resp) /\ UNCHANGED outerVars

CheckStep ==
    \/ CheckAttempt
    \/ Fallback /\ UNCHANGED outerVars

(***************************************************************************)
(* Inputs.                                                                 *)
(***************************************************************************)
\* a token of n alphanumeric characters
Token(n) == [i \in 1..n |-> IF i % 3 = 0 THEN "7" ELSE IF i % 3 = 1 THEN "a" ELSE "Z"]

\* the code handed to a single lookup: what the extractor gives for a gift URL
SampleCode == extract_gift_code(Patterns[1] \o Token(MinCodeLen))

EmptyResults ==
    [claimable |-> <<>>, claimed |-> <<>>, invalid |-> <<>>,
     rate_limited |-> <<>>, error |-> <<>>]

\* line 140: delay: float = 2.5
BulkDefaultDelay == <<"num", DefaultDelay, 10>>

BatchIdle ==
    /\ bpc = "idle"
    /\ fileExists = FALSE
    /\ lines = <<>>
    /\ delay = BulkDefaultDelay
    /\ codesToCheck = <<>>
    /\ idx = 0
    /\ results = EmptyResults
    /\ calls = <<>>
    /\ outcomes = <<>>
    /\ batchLog = <<>>
    /\ saved = 0

\* no session, no prompt and no direct extraction is under way
NoDelay == <<"unset">>

UiIdle ==
    /\ upc = "idle"
    /\ inputText = <<>>
    /\ extracted = NoCode
    /\ delayInput = <<>>
    /\ handedDelay = NoDelay
    /\ debugMode = FALSE
    /\ entered = <<>>
    /\ lookups = <<>>

\* one call check_promo_code(code, debug, max_retries)
InitCheck ==
    /\ mode = "check"
    /\ jsonErrCaught \in BOOLEAN
    /\ cpc = "loop"
    /\ code = SampleCode
    /\ debug \in BOOLEAN
    /\ maxRetries \in (-NegativeRetries)..MaxRetriesBound
    /\ attempt = 0
    /\ result = NoResult
    /\ exc = ""
    /\ log = <<>>
    /\ BatchIdle
    /\ UiIdle

SpecCheck == InitCheck /\ [][CheckStep]_vars

\* one call with more attempts against a throttling or failing remote
InitBackoff ==
    /\ mode = "backoff"
    /\ jsonErrCaught \in BOOLEAN
    /\ cpc = "loop"
    /\ code = SampleCode
    /\ debug \in BOOLEAN
    /\ maxRetries \in 0..MaxBackoffRetries
    /\ attempt = 0
    /\ result = NoResult
    /\ exc = ""
    /\ log = <<>>
    /\ BatchIdle
    /\ UiIdle

SpecBackoff == InitBackoff /\ [][CheckStep]_vars

(***************************************************************************)
(* bulk_check_from_file                                                    *)
(***************************************************************************)
\* lines 150-156 without the test for the comment marker
RECURSIVE CodesOf_KeepsComments(_)
CodesOf_KeepsComments(ls) ==
    IF ls = <<>> THEN <<>>
    ELSE LET line == Strip(Head(ls))
             c == extract_gift_code(line)
         IN  IF line # <<>> /\ c # NoCode
             THEN <<c>> \o CodesOf_KeepsComments(Tail(ls))
             ELSE CodesOf_KeepsComments(Tail(ls))

\* lines 150-156 collecting each code once only
RECURSIVE CodesOf_Unique(_)
CodesOf_Unique(ls) ==
    IF ls = <<>> THEN <<>>
    ELSE LET before == CodesOf_Unique(SubSeq(ls, 1, Len(ls) - 1))
             line == Strip(ls[Len(ls)])
             c == extract_gift_code(line)
         IN  IF /\ line # <<>> /\ ~StartsWith(line, <<"#">>) /\ c # NoCode
                /\ \A k \in 1..Len(before) : before[k] # c
             THEN Append(before, c)
             ELSE before

\* lines 150-156
RECURSIVE CodesOf(_)
CodesOf(ls) ==
    IF ls = <<>> THEN <<>>
    ELSE LET line == Strip(Head(ls))
             c == extract_gift_code(line)
         IN  IF line # <<>> /\ ~StartsWith(line, <<"#">>) /\ c # NoCode
             THEN <<c>> \o CodesOf(Tail(ls))
             ELSE CodesOf(Tail(ls))

\* lines 179-193 without the RATE_LIMITED branch
Category_NoRateLimited(r) ==
    CASE r.status = "CLAIMABLE" -> "claimable"
      [] r.status = "CLAIMED" -> "claimed"
      [] r.status = "INVALID" -> "invalid"
      [] OTHER -> "error"

\* lines 179-193: the list a result goes to
Category(r) ==
    CASE r.status = "CLAIMABLE" -> "claimable"
      [] r.status = "CLAIMED" -> "claimed"
      [] r.status = "INVALID" -> "invalid"
      [] r.status = "RATE_LIMITED" -> "rate_limited"
      [] OTHER -> "error"

\* line 195
SleepsAfter(i, n) == i < n

\* lines 143-172
BulkStart ==
    /\ bpc = "start"
    /\ IF ~fileExists
       THEN /\ bpc' = "nofile"
            /\ UNCHANGED <<codesToCheck, idx, results>>
       ELSE IF CodesOf(lines) = <<>>
       THEN /\ bpc' = "nocodes"
            /\ codesToCheck' = <<>>
            /\ UNCHANGED <<idx, results>>
       ELSE /\ bpc' = "loop"
            /\ codesToCheck' = CodesOf(lines)
            /\ idx' = 1
            /\ results' = EmptyResults
    /\ UNCHANGED <<mode, jsonErrCaught, fileExists, lines, delay, calls,
                   outcomes, batchLog, saved>>
    /\ UNCHANGED checkVars
    /\ UNCHANGED uiVars

\* lines 174-177: the next code is handed to check_promo_code(code)
BulkCall ==
    /\ bpc = "loop"
    /\ idx <= Len(codesToCheck)
    /\ bpc' = "calling"
    /\ cpc' = "loop"
    /\ code' = codesToCheck[idx]
    /\ debug' = FALSE
    /\ maxRetries' = DefaultMaxRetries
    /\ attempt' = 0
    /\ result' = NoResult
    /\ exc' = ""
    /\ log' = <<>>
    /\ calls' = Append(calls, <<codesToCheck[idx], FALSE>>)
    /\ batchLog' = Append(batchLog, <<"check", idx>>)
    /\ UNCHANGED <<mode, jsonErrCaught, fileExists, lines, delay, codesToCheck,
                   idx, results, outcomes, saved>>
    /\ UNCHANGED uiVars

\* lines 179-196: the result is filed and the inter-code sleep taken; when
\* time.sleep(delay) raises, nothing in the loop catches it
BulkClassify ==
    /\ bpc = "calling"
    /\ cpc = "returned"
    /\ results' = [results EXCEPT ![Category(result)] = Append(@, result)]
    /\ outcomes' = Append(outcomes, result)
    /\ IF SleepsAfter(idx, Len(codesToCheck)) /\ SleepRaises(delay) # ""
       THEN /\ bpc' = "sleep_raised"
            /\ exc' = SleepRaises(delay)
            /\ UNCHANGED <<batchLog, idx>>
       ELSE /\ batchLog' = IF SleepsAfter(idx, Len(codesToCheck))
                           THEN Append(batchLog, <<"sleep", delay>>)
                           ELSE batchLog
            /\ idx' = idx + 1
            /\ bpc' = "loop"
            /\ exc' = exc
    /\ cpc' = "idle"
    /\ attempt' = 0
    /\ result' = NoResult
    /\ log' = <<>>
    /\ UNCHANGED <<mode, jsonErrCaught, code, debug, maxRetries,
                   fileExists, lines, delay, codesToCheck, calls, saved>>
    /\ UNCHANGED uiVars

\* line 177 when check_promo_code raises: nothing in the loop catches it
BulkAbort ==
    /\ bpc = "calling"
    /\ cpc = "raised"
    /\ bpc' = "crashed"
    /\ cpc' = "idle"
    /\ UNCHANGED <<mode, jsonErrCaught, code, debug, maxRetries, attempt, result,
                   exc, log, fileExists, lines, delay, codesToCheck, idx,
                   results, calls, outcomes, batchLog, saved>>
    /\ UNCHANGED uiVars

\* lines 198-216: summary, then save_results
BulkFinish ==
    /\ bpc = "loop"
    /\ idx > Len(codesToCheck)
    /\ bpc' = "done"
    /\ saved' = saved + 1
    /\ UNCHANGED <<mode, jsonErrCaught, fileExists, lines, delay, codesToCheck,
                   idx, results, calls, outcomes, batchLog>>
    /\ UNCHANGED checkVars
    /\ UNCHANGED uiVars

BatchStep ==
    \/ BulkStart
    \/ BulkCall
    \/ BulkClassify
    \/ BulkAbort
    \/ BulkFinish

\* lines of an input file: blank, comment, gift URL, bare code, unusable token
SampleLines ==
    { <<"\n">>,
      <<"U+000B", "#">> \o Patterns[1] \o Token(MinCodeLen) \o <<"\n">>,
      Patterns[1] \o Token(MinCodeLen) \o <<"\n">>,
      <<"\f">> \o Token(MaxCodeLen) \o <<" ", "U+2003", "\n">>,
      Token(MinCodeLen - 1) \o <<"\n">> }

RECURSIVE SeqsUpTo(_, _)
SeqsUpTo(S, n) ==
    IF n = 0 THEN {<<>>}
    ELSE SeqsUpTo(S, n - 1)
         \cup {Append(q, x) : q \in {p \in SeqsUpTo(S, n - 1) : Len(p) = n - 1}, x \in S}

\* delays a caller hands over: the default, a negative number, nan
BatchDelays == {BulkDefaultDelay, <<"num", -1, 1>>, NaN}

\* one call bulk_check_from_file(filename, delay=delay)
InitBatch ==
    /\ mode = "batch"
    /\ jsonErrCaught = FALSE
    /\ cpc = "idle"
    /\ code = NoCode
    /\ debug = FALSE
    /\ maxRetries = DefaultMaxRetries
    /\ attempt = 0
    /\ result = NoResult
    /\ exc = ""
    /\ log = <<>>
    /\ bpc = "start"
    /\ fileExists \in BOOLEAN
    /\ lines \in (IF fileExists THEN SeqsUpTo(SampleLines, MaxLines) ELSE {<<>>})
    /\ delay \in BatchDelays
    /\ codesToCheck = <<>>
    /\ idx = 0
    /\ results = EmptyResults
    /\ calls = <<>>
    /\ outcomes = <<>>
    /\ batchLog = <<>>
    /\ saved = 0
    /\ UiIdle

\* the batch calls check_promo_code with max_retries = 3, so the loop always
\* returns from inside and Fallback is never enabled in a batch run
SpecBatch == InitBatch /\ [][CheckAttempt \/ BatchStep]_vars

(***************************************************************************)
(* interactive_mode                                                        *)
(***************************************************************************)
QuitWords == { <<"q","u","i","t">>, <<"e","x","i","t">>, <<"q">> }
DebugWord == <<"d","e","b","u","g">>

\* lines typed at the prompt: the words that end the session and the debug
\* word in several spellings, a blank line, a gift URL, a token too short
SessionLines ==
    { <<"q","u","i","t">>,
      <<"\f","Q","U+00A0">>,
      <<"E","x","i","t">>,
      DebugWord,
      <<"D","E","B","U","G"," ">>,
      <<" ">>,
      Patterns[1] \o Token(MinCodeLen),
      Token(MinCodeLen - 1) }

\* line 286 comparing without lower()
IsQuit_CaseSensitive(user_input) == user_input \in QuitWords

\* line 286
IsQuit(user_input) == Lowercase(user_input) \in QuitWords

\* line 290
IsDebug(user_input) == Lowercase(user_input) = DebugWord

\* line 284: input() has another line to return
Prompting == upc = "prompt" /\ Len(entered) < MaxInputs

\* what interactive_mode never touches
SessionFrame ==
    /\ UNCHANGED <<mode, jsonErrCaught, inputText, extracted, delayInput,
                   handedDelay>>
    /\ UNCHANGED batchVars

\* lines 284-288
SessionQuit(line) ==
    /\ Prompting
    /\ IsQuit(Strip(line))
    /\ entered' = Append(entered, line)
    /\ upc' = "exited"
    /\ UNCHANGED <<debugMode, lookups>>
    /\ UNCHANGED checkVars
    /\ SessionFrame

\* lines 284-294
SessionDebug(line) ==
    /\ Prompting
    /\ ~IsQuit(Strip(line))
    /\ IsDebug(Strip(line))
    /\ entered' = Append(entered, line)
    /\ debugMode' = ~debugMode
    /\ UNCHANGED <<upc, lookups>>
    /\ UNCHANGED checkVars
    /\ SessionFrame

\* lines 284-297
SessionBlank(line) ==
    /\ Prompting
    /\ ~IsQuit(Strip(line))
    /\ ~IsDebug(Strip(line))
    /\ Strip(line) = <<>>
    /\ entered' = Append(entered, line)
    /\ UNCHANGED <<upc, debugMode, lookups>>
    /\ UNCHANGED checkVars
    /\ SessionFrame

\* lines 284-303
SessionInvalid(line) ==
    /\ Prompting
    /\ ~IsQuit(Strip(line))
    /\ ~IsDebug(Strip(line))
    /\ Strip(line) # <<>>
    /\ extract_gift_code(Strip(line)) = NoCode
    /\ entered' = Append(entered, line)
    /\ UNCHANGED <<upc, debugMode, lookups>>
    /\ UNCHANGED checkVars
    /\ SessionFrame

\* lines 284-308: the code is handed to check_promo_code(code, debug=debug_mode)
SessionLookup(line) ==
    /\ Prompting
    /\ ~IsQuit(Strip(line))
    /\ ~IsDebug(Strip(line))
    /\ Strip(line) # <<>>
    /\ extract_gift_code(Strip(line)) # NoCode
    /\ entered' = Append(entered, line)
    /\ upc' = "checking"
    /\ cpc' = "loop"
    /\ code' = extract_gift_code(Strip(line))
    /\ debug' = debugMode
    /\ maxRetries' = DefaultMaxRetries
    /\ attempt' = 0
    /\ result' = NoResult
    /\ exc' = ""
    /\ log' = <<>>
    /\ lookups' = Append(lookups, <<extract_gift_code(Strip(line)), debugMode,
                                    Len(entered) + 1>>)
    /\ UNCHANGED debugMode
    /\ SessionFrame

\* lines 310-318: the result is printed, then the next prompt
SessionReturn ==
    /\ upc = "checking"
    /\ cpc = "returned"
    /\ upc' = "prompt"
    /\ cpc' = "idle"
    /\ attempt' = 0
    /\ result' = NoResult
    /\ log' = <<>>
    /\ UNCHANGED <<code, debug, maxRetries, exc, debugMode, entered, lookups>>
    /\ SessionFrame

\* line 308 when check_promo_code raises: nothing in the loop catches it
SessionAbort ==
    /\ upc = "checking"
    /\ cpc = "raised"
    /\ upc' = "crashed"
    /\ cpc' = "idle"
    /\ UNCHANGED <<code, debug, maxRetries, attempt, result, exc, log,
                   debugMode, entered, lookups>>
    /\ SessionFrame

SessionStep ==
    \/ \E line \in SessionLines : SessionQuit(line)
    \/ \E line \in SessionLines : SessionDebug(line)
    \/ \E line \in SessionLines : SessionBlank(line)
    \/ \E line \in SessionLines : SessionInvalid(line)
    \/ \E line \in SessionLines : SessionLookup(line)
    \/ SessionReturn
    \/ SessionAbort

\* one call interactive_mode()
InitSession ==
    /\ mode = "session"
    /\ jsonErrCaught = FALSE
    /\ cpc = "idle"
    /\ code = NoCode
    /\ debug = FALSE
    /\ maxRetries = DefaultMaxRetries
    /\ attempt = 0
    /\ result = NoResult
    /\ exc = ""
    /\ log = <<>>
    /\ BatchIdle
    /\ upc = "prompt"
    /\ inputText = <<>>
    /\ extracted = NoCode
    /\ delayInput = <<>>
    /\ handedDelay = NoDelay
    /\ debugMode = FALSE
    /\ entered = <<>>
    /\ lookups = <<>>

\* as in a batch, the lookups run with max_retries = 3 and never reach Fallback
SpecSession == InitSession /\ [][CheckAttempt \/ SessionStep]_vars

\* the three callers of check_promo_code side by side: a direct call with
\* any debug and max_retries, a batch and an interactive session
SpecCallers ==
    (InitCheck \/ InitBatch \/ InitSession)
        /\ [][CheckStep \/ BatchStep \/ SessionStep]_vars

(***************************************************************************)
(* extract_gift_code called on its own                                     *)
(***************************************************************************)
URLScheme == <<"h","t","t","p","s",":","/","/">>

\* texts handed to extract_gift_code: a bare token or a gift URL of one of
\* the four hosts, with or without scheme, holding a token of 15 to 26
\* characters, alone, followed by a line end, a query string or a token
\* character more after a dash, or preceded by a blank or a form feed
ExtractInputs ==
    { lead \o host \o Token(n) \o tail :
        lead \in { <<>>, <<" ">>, <<"\f">> },
        host \in { <<>>, Patterns[1], Patterns[2], Patterns[3], Patterns[4],
                   URLScheme \o Patterns[1] },
        n \in (MinCodeLen - 1)..(MaxCodeLen + 1),
        tail \in { <<>>, <<"\n">>, <<"?","x">>, <<"-","a">> } }

\* lines 8-25: one call extract_gift_code(text)
ExtractCall ==
    /\ upc = "extract"
    /\ upc' = "extracted"
    /\ extracted' = extract_gift_code(inputText)
    /\ UNCHANGED <<mode, jsonErrCaught, inputText, delayInput, handedDelay,
                   debugMode, entered, lookups>>
    /\ UNCHANGED checkVars
    /\ UNCHANGED batchVars

InitExtract ==
    /\ mode = "extract"
    /\ jsonErrCaught = FALSE
    /\ cpc = "idle"
    /\ code = NoCode
    /\ debug = FALSE
    /\ maxRetries = DefaultMaxRetries
    /\ attempt = 0
    /\ result = NoResult
    /\ exc = ""
    /\ log = <<>>
    /\ BatchIdle
    /\ upc = "extract"
    /\ inputText \in ExtractInputs
    /\ extracted = NoCode
    /\ delayInput = <<>>
    /\ handedDelay = NoDelay
    /\ debugMode = FALSE
    /\ entered = <<>>
    /\ lookups = <<>>

SpecExtract == InitExtract /\ [][ExtractCall]_vars

(***************************************************************************)
(* main: bulk mode                                                         *)
(***************************************************************************)
\* line 345: delay = 2.5
MainDefaultDelay == <<"num", DefaultDelay, 10>>

\* lines 345-357
DelayFor(delay_input) ==
    IF delay_input = <<>> THEN MainDefaultDelay
    ELSE LET v == ParseFloat(delay_input)
         IN  IF v = ValueError THEN MainDefaultDelay
             ELSE IF LessThan(v, 0) THEN MainDefaultDelay
             ELSE IF GreaterThan(v, MaxDelay) THEN <<"num", MaxDelay, 1>>
             ELSE v

\* lines 344-359: the answer to the delay prompt is read and stripped, the
\* delay worked out and bulk_check_from_file(filename, delay=delay) entered
MainBulkMode ==
    /\ upc = "delay_prompt"
    /\ upc' = "bulk_called"
    /\ handedDelay' = DelayFor(Strip(delayInput))
    /\ delay' = DelayFor(Strip(delayInput))
    /\ bpc' = "start"
    /\ UNCHANGED <<mode, jsonErrCaught, inputText, extracted, delayInput,
                   debugMode, entered, lookups>>
    /\ UNCHANGED checkVars
    /\ UNCHANGED <<fileExists, lines, codesToCheck, idx, results, calls,
                   outcomes, batchLog, saved>>

\* answers to the delay prompt, as input() returns them
DelayInputs ==
    { sign \o int \o frac :
        sign \in { <<>>, <<"-">>, <<"+">> },
        int \in { <<"0">>, <<"2">>, <<"5","9">>, <<"6","0">>, <<"6","1">>,
                  <<"1","0","0">> },
        frac \in { <<>>, <<".","0">>, <<".","5">> } }
    \cup { <<>>,
           <<"n","a","n">>, <<"N","a","N">>, <<"-","n","a","n">>,
           <<"i","n","f">>, <<"-","i","n","f">>, <<"I","n","f","i","n","i","t","y">>,
           <<"a","b","c">>, <<"2",",","5">>, <<"-","-","1">>, <<".">>,
           <<".","5">>, <<"5",".">>, <<"1","e","2">>, <<"6","e","1">>,
           <<"2","5","e","-","1">>, <<"1","e">>, <<"1","_","0">>, <<"_","1">>,
           <<"2"," ","5">>, <<"-">>,
           <<" ">>, <<" ","5"," ">>, <<"\f","7","U+00A0">>,
           <<"U+0663">>, <<"U+FF13">>, <<"U+0663",".","U+0665">>,
           <<"1","U+0663">>, <<"-","U+0967","U+0966">>, <<"U+0663","_","0">> }

\* the file named at the filename prompt, when it exists: two gift URLs
\* and a comment
MainFile ==
    << Patterns[1] \o Token(MinCodeLen) \o <<"\n">>,
       <<"#", " ", "c", "o", "d", "e", "s", "\n">>,
       Patterns[2] \o Token(MaxCodeLen) \o <<"\n">> >>

\* main after the filename was entered in bulk mode
InitMain ==
    /\ mode = "main"
    /\ jsonErrCaught = FALSE
    /\ cpc = "idle"
    /\ code = NoCode
    /\ debug = FALSE
    /\ maxRetries = DefaultMaxRetries
    /\ attempt = 0
    /\ result = NoResult
    /\ exc = ""
    /\ log = <<>>
    /\ bpc = "idle"
    /\ fileExists \in BOOLEAN
    /\ lines = (IF fileExists THEN MainFile ELSE <<>>)
    /\ delay = BulkDefaultDelay
    /\ codesToCheck = <<>>
    /\ idx = 0
    /\ results = EmptyResults
    /\ calls = <<>>
    /\ outcomes = <<>>
    /\ batchLog = <<>>
    /\ saved = 0
    /\ upc = "delay_prompt"
    /\ inputText = <<>>
    /\ extracted = NoCode
    /\ delayInput \in DelayInputs
    /\ handedDelay = NoDelay
    /\ debugMode = FALSE
    /\ entered = <<>>
    /\ lookups = <<>>

SpecMain == InitMain /\ [][MainBulkMode \/ CheckAttempt \/ BatchStep]_vars

(***************************************************************************)
(* Reading the log of one lookup.                                          *)
(***************************************************************************)
IsGet(j) == log[j].ev = "get"
IsSleep(j) == log[j].ev = "sleep"
NumGets == Cardinality({j \in 1..Len(log) : IsGet(j)})
NumSleeps == Cardinality({j \in 1..Len(log) : IsSleep(j)})

\* the 0-based attempt number of the GET logged at position j
AttemptOf(j) == Cardinality({i \in 1..(j - 1) : IsGet(i)})

GotStatus(j, st) ==
    IsGet(j) /\ log[j].resp.kind = "http" /\ log[j].resp.status = st
GotFailure(j) == IsGet(j) /\ log[j].resp.kind = "fail"
GotTerminal(j) ==
    IsGet(j) /\ log[j].resp.kind = "http" /\ log[j].resp.status # 429

Finished == cpc \in {"returned", "raised"}
OutcomeKinds == {"CLAIMABLE", "CLAIMED", "INVALID", "RATE_LIMITED", "ERROR"}

(***************************************************************************)
(* C1: whatever the remote does, check_promo_code hands its caller a       *)
(* well-formed outcome (its code, one of the five kinds, a message) and    *)
(* no exception escapes it.                                                *)
(***************************************************************************)
C1_NoExceptionEscapes ==
    /\ cpc # "raised"
    /\ cpc = "returned" =>
          /\ result.code = code
          /\ result.status \in OutcomeKinds
          /\ result.message # <<>>

(***************************************************************************)
(* C2: with maxRetries >= 1 a finished lookup has issued between 1 and     *)
(* maxRetries GETs; if every response was a 429 it has issued exactly      *)
(* maxRetries GETs and returned RATE_LIMITED.                              *)
(***************************************************************************)
C2_RequestCount ==
    (Finished /\ maxRetries >= 1) =>
        /\ NumGets >= 1
        /\ NumGets <= maxRetries
        /\ (\A j \in 1..Len(log) : IsGet(j) => GotStatus(j, 429)) =>
              /\ NumGets = maxRetries
              /\ cpc = "returned"
              /\ result.status = "RATE_LIMITED"

(***************************************************************************)
(* C3: a 200, a 404 or an unrecognized status ends the lookup at once:     *)
(* nothing (no GET, no sleep) follows it, and the lookup returns that      *)
(* response's classification.                                              *)
(***************************************************************************)
ClassesOf(st) ==
    CASE st = 200 -> {"CLAIMABLE", "CLAIMED"}
      [] st = 404 -> {"INVALID"}
      [] OTHER -> {"ERROR"}

C3_TerminalResponseEndsLookup ==
    \A j \in 1..Len(log) :
        GotTerminal(j) =>
            /\ j = Len(log)
            /\ NumGets = AttemptOf(j) + 1
            /\ NumGets <= maxRetries
            /\ cpc = "returned"
            /\ result.status \in ClassesOf(log[j].resp.status)

(***************************************************************************)
(* C4: a 200 response with a JSON object body is classified CLAIMED        *)
(* exactly when redeemed is true or uses >= max_uses (redeemed false,      *)
(* uses 0, max_uses 1 when absent) and CLAIMABLE otherwise.                *)
(***************************************************************************)
ExpectedKind(data) ==
    LET r == Get(data, "redeemed", JBool(FALSE))
        u == Get(data, "uses", JInt(0))
        m == Get(data, "max_uses", JInt(1))
    IN  IF r = JBool(TRUE) \/ (Comparable(u) /\ Comparable(m) /\ Num(u) >= Num(m))
        THEN "CLAIMED"
        ELSE "CLAIMABLE"

C4_Classification ==
    \A j \in 1..Len(log) :
        (GotStatus(j, 200) /\ log[j].resp.body[1] = "obj") =>
            /\ cpc = "returned"
            /\ result.status = ExpectedKind(log[j].resp.body[2])

(***************************************************************************)
(* C5: a 429 on attempt k < maxRetries - 1 whose Retry-After is an integer *)
(* R (3 when the header is absent) is followed by a sleep of               *)
(* min(R * 2^k, 30) seconds, at most 30, and then by the next request.     *)
(***************************************************************************)
RetryAfterOf(resp) ==
    IF resp.retryAfter = Absent THEN DefaultRetryAfter ELSE resp.retryAfter[2]

C5_RateLimitBackoff ==
    \A j \in 1..Len(log) :
        ( /\ GotStatus(j, 429)
          /\ AttemptOf(j) < maxRetries - 1
          /\ log[j].resp.retryAfter[1] \in {"absent", "int"} ) =>
            /\ Len(log) > j
            /\ log[j + 1] = SleepEvent(Min(RetryAfterOf(log[j].resp)
                                             * Pow2(AttemptOf(j)), 30))
            /\ log[j + 1].secs <= 30
            /\ IF Len(log) = j + 1
               THEN cpc = "loop" /\ attempt = AttemptOf(j) + 1
               ELSE IsGet(j + 2)

(***************************************************************************)
(* C6: a transport failure on attempt k < maxRetries - 1 is followed by a  *)
(* sleep of min(2 * 2^k, 10) seconds and then by the next request; a       *)
(* transport failure on the last allowed attempt ends the lookup with an   *)
(* ERROR outcome whose message carries the failure description.            *)
(***************************************************************************)
C6_TransportFailureBackoff ==
    \A j \in 1..Len(log) :
        GotFailure(j) =>
            IF AttemptOf(j) < maxRetries - 1
            THEN /\ Len(log) > j
                 /\ log[j + 1] = SleepEvent(Min(2 * Pow2(AttemptOf(j)), 10))
                 /\ IF Len(log) = j + 1
                    THEN cpc = "loop" /\ attempt = AttemptOf(j) + 1
                                      /\ attempt < maxRetries
                    ELSE IsGet(j + 2)
            ELSE /\ j = Len(log)
                 /\ cpc = "returned"
                 /\ result.status = "ERROR"
                 /\ result.message = <<"Network error", log[j].resp.desc>>

\* a lookup that slept the capped 10 seconds after a failed fourth attempt
\* and then gave up on a failed last attempt
C6_Witness ==
    /\ cpc = "returned"
    /\ maxRetries = 5
    /\ \A j \in 1..Len(log) : IsGet(j) => GotFailure(j)
    /\ \E j \in 1..Len(log) : IsSleep(j) /\ log[j].secs = NetworkCap
    /\ result.message[1] = "Network error"

(***************************************************************************)
(* Reading a batch run.                                                    *)
(***************************************************************************)
Categories == {"claimable", "claimed", "invalid", "rate_limited", "error"}

KindOfCategory(c) ==
    CASE c = "claimable" -> {"CLAIMABLE"}
      [] c = "claimed" -> {"CLAIMED"}
      [] c = "invalid" -> {"INVALID"}
      [] c = "rate_limited" -> {"RATE_LIMITED"}
      [] OTHER -> {"ERROR"}

\* the outcomes of one kind, in the order the lookups returned them
OfKind(c) ==
    LET Test(r) == r.status \in KindOfCategory(c)
    IN  SelectSeq(outcomes, Test)

TotalFiled ==
    Len(results.claimable) + Len(results.claimed) + Len(results.invalid)
        + Len(results.rate_limited) + Len(results.error)

InterCodeSleeps == {j \in 1..Len(batchLog) : batchLog[j][1] = "sleep"}
LookupsStarted == {j \in 1..Len(batchLog) : batchLog[j][1] = "check"}

\* a line that gives no code: blank, a comment, or nothing to extract
Unusable(line) ==
    LET stripped == Strip(line)
    IN  \/ stripped = <<>>
        \/ Head(stripped) = "#"
        \/ extract_gift_code(stripped) = NoCode

\* the batch has ended: by one of its two early returns, by an exception or
\* after its report
Stopped == bpc \in {"nofile", "nocodes", "crashed", "sleep_raised", "done"}

InBatchLoop == bpc \in {"loop", "calling", "crashed", "sleep_raised", "done"}

\* the codes looked up and filed so far: i - 1 inside the loop body of code
\* i, i when the sleep after code i raised
Processed == IF bpc = "sleep_raised" THEN idx ELSE idx - 1

(***************************************************************************)
(* C7: the batch calls check_promo_code once per code, in input order and  *)
(* with diagnostic off; once i codes are processed the five lists hold     *)
(* exactly those i outcomes, each in the one list of its kind and each     *)
(* list in check order; at completion all N codes are processed.           *)
(***************************************************************************)
C7_BatchBookkeeping ==
    /\ Len(calls) <= Len(codesToCheck)
    /\ \A i \in 1..Len(calls) : calls[i] = <<codesToCheck[i], FALSE>>
    /\ InBatchLoop =>
          /\ Len(outcomes) = Processed
          /\ Len(calls) = IF bpc \in {"calling", "crashed"} THEN idx ELSE Processed
          /\ \A i \in 1..Len(outcomes) : outcomes[i].code = codesToCheck[i]
    /\ \A c \in Categories : results[c] = OfKind(c)
    /\ TotalFiled = Len(outcomes)
    /\ bpc = "done" =>
          /\ Len(calls) = Len(codesToCheck)
          /\ TotalFiled = Len(codesToCheck)

\* a finished run over three codes whose outcomes went to different lists,
\* one of them holding two outcomes
C7_Witness ==
    /\ bpc = "done"
    /\ Len(codesToCheck) = 3
    /\ codesToCheck[1] # codesToCheck[2]
    /\ Len(results.rate_limited) = 1
    /\ Len(results.claimed) = 2
    /\ outcomes[2].status = "RATE_LIMITED"

(***************************************************************************)
(* C8: a batch over a non-empty list of N codes that has stopped has       *)
(* looked up all N codes, printed its summary and written its report       *)
(* once; no lookup's failure ends it earlier.                              *)
(***************************************************************************)
C8_BatchRunsToCompletion ==
    ( /\ fileExists
      /\ CodesOf(lines) # <<>>
      /\ bpc \notin {"start", "loop", "calling"} ) =>
        /\ bpc = "done"
        /\ Len(calls) = Len(CodesOf(lines))
        /\ saved = 1

(***************************************************************************)
(* C9: the batch sleeps delay between consecutive lookups and nowhere      *)
(* else: after each processed lookup but the last one, before the next     *)
(* lookup starts; a completed run over N codes has slept N - 1 times.      *)
(***************************************************************************)
C9_InterCodeSleeps ==
    LET n == Len(codesToCheck)
    IN  /\ \A j \in 1..Len(batchLog) :
              IF j % 2 = 1
              THEN batchLog[j] = <<"check", (j + 1) \div 2>>
              ELSE batchLog[j] = <<"sleep", delay>>
        /\ \A j \in InterCodeSleeps : batchLog[j - 1][2] < n
        /\ InBatchLoop =>
              Cardinality(InterCodeSleeps) = Min(Len(outcomes), n - 1)
        /\ bpc = "done" =>
              /\ Cardinality(InterCodeSleeps) = n - 1
              /\ Cardinality(LookupsStarted) = n
              /\ batchLog[Len(batchLog)] = <<"check", n>>

(***************************************************************************)
(* C10: when the input file does not exist, or none of its lines yields a  *)
(* code, the batch issues no request, performs no sleep and writes no      *)
(* report: it ends by one of its early returns with nothing logged.  The   *)
(* lines are read once the batch has stopped; before its first step it     *)
(* has done nothing, whatever the file.                                    *)
(***************************************************************************)
C10_NothingToCheck ==
    /\ bpc = "start" =>
          cpc = "idle" /\ log = <<>> /\ calls = <<>> /\ batchLog = <<>> /\ saved = 0
    /\ (Stopped /\ (~fileExists \/ \A i \in 1..Len(lines) : Unusable(lines[i]))) =>
          /\ bpc \in {"nofile", "nocodes"}
          /\ cpc = "idle"
          /\ log = <<>>
          /\ calls = <<>>
          /\ batchLog = <<>>
          /\ saved = 0

\* a run over an existing file of three lines, a comment holding a gift URL
\* among them, that ended with no codes found
C10_Witness ==
    /\ bpc = "nocodes"
    /\ Len(lines) = 3
    /\ \E i \in 1..Len(lines) :
          /\ StartsWith(Strip(lines[i]), <<"#">>)
          /\ extract_gift_code(lines[i]) # NoCode

\* the codes of the lines from line i on that are neither blank nor a
\* comment and hold a code, in file order
RECURSIVE UsableFrom(_)
UsableFrom(i) ==
    IF i > Len(lines) THEN <<>>
    ELSE LET stripped == Strip(lines[i])
             token == IF stripped = <<>> \/ Head(stripped) = "#" THEN NoCode
                      ELSE extract_gift_code(stripped)
         IN  IF token = NoCode THEN UsableFrom(i + 1)
             ELSE <<token>> \o UsableFrom(i + 1)


(***************************************************************************)
(* C11: the lookups of a batch run are those of the input lines that are   *)
(* neither blank nor start with '#' and from which a code can be           *)
(* extracted, one lookup per such line, in file order and for the code     *)
(* extracted from that line (a code on two lines is looked up twice); the  *)
(* other lines cause no lookup and no entry in any of the five lists; a    *)
(* completed run has made as many lookups, and filed as many outcomes, as  *)
(* there are such lines.  The lookups, which only grow during a run, are   *)
(* compared with the lines once the batch has stopped.                     *)
(***************************************************************************)
C11_LookupsFollowUsableLines ==
    /\ Cardinality(LookupsStarted) = Len(calls)
    /\ TotalFiled <= Len(calls)
    /\ Stopped =>
          LET usable == UsableFrom(1)
          IN  /\ Len(calls) <= Len(usable)
              /\ \A k \in 1..Len(calls) : calls[k][1] = usable[k]
              /\ bpc = "done" =>
                    /\ Len(calls) = Len(usable)
                    /\ TotalFiled = Len(usable)

\* a completed run over a file holding the same gift URL on its first and
\* last line and a comment between them: two lookups of the one code
C11_Witness ==
    /\ bpc = "done"
    /\ Len(lines) = 3
    /\ lines[1] = lines[3]
    /\ StartsWith(Strip(lines[2]), <<"#">>)
    /\ Len(calls) = 2
    /\ calls[1] = calls[2]
    /\ TotalFiled = 2

\* log[j] and log[j + 2] are consecutive 429 responses of one lookup, each
\* followed by its backoff sleep
BackoffPair(j) ==
    /\ j + 3 <= Len(log)
    /\ GotStatus(j, 429) /\ IsSleep(j + 1)
    /\ GotStatus(j + 2, 429) /\ IsSleep(j + 3)

(***************************************************************************)
(* C12 as stated: within one lookup that receives consecutive 429          *)
(* responses, whatever Retry-After values the server sends, each backoff   *)
(* sleep is longer than the one before it.                                 *)
(***************************************************************************)
C12_Original ==
    \A j \in 1..Len(log) :
        BackoffPair(j) => log[j + 3].secs > log[j + 1].secs

(***************************************************************************)
(* C12 amended: within one lookup that receives consecutive 429 responses  *)
(* carrying the same Retry-After value R >= 1 (3 when the header is        *)
(* absent), each backoff sleep is at least as long as the one before it,   *)
(* and longer whenever the one before it was below the 30 second cap.      *)
(***************************************************************************)
C12_BackoffGrowsUpToCap ==
    \A j \in 1..Len(log) :
        ( /\ BackoffPair(j)
          /\ log[j].resp.retryAfter = log[j + 2].resp.retryAfter
          /\ RetryAfterOf(log[j].resp) >= 1 ) =>
            /\ log[j + 3].secs >= log[j + 1].secs
            /\ log[j + 1].secs < RateLimitCap => log[j + 3].secs > log[j + 1].secs

\* a lookup throttled with Retry-After: 20 throughout whose sleeps were 20,
\* then 30, then 30 again
C12_Witness ==
    /\ Len(log) >= 6
    /\ \A j \in {1, 3, 5} :
          GotStatus(j, 429) /\ log[j].resp.retryAfter = JInt(20)
    /\ log[2].secs = 20
    /\ log[4].secs = RateLimitCap
    /\ log[6].secs = RateLimitCap

(***************************************************************************)
(* Reading a session.                                                      *)
(***************************************************************************)
\* the line, trimmed and case-folded, is one of quit, exit, q
IsQuitLine(line) == Lowercase(Strip(line)) \in QuitWords
IsDebugLine(line) == ~IsQuitLine(line) /\ Lowercase(Strip(line)) = DebugWord

\* the debug flag when line i is read: off at first, flipped by each debug
\* line before it
FlagAt(i) ==
    Cardinality({k \in 1..(i - 1) : IsDebugLine(entered[k])}) % 2 = 1

\* the line is not blank, not reserved and holds a code
LooksUp(line) ==
    /\ ~IsQuitLine(line)
    /\ ~IsDebugLine(line)
    /\ Strip(line) # <<>>
    /\ extract_gift_code(Strip(line)) # NoCode

(***************************************************************************)
(* C13: no line is read after one that is, trimmed and case-folded, quit,  *)
(* exit or q, and the session has ended normally exactly when the last     *)
(* line read is such a line; the debug flag starts off and has been        *)
(* flipped once per debug line read; the lookups made are, in order, those *)
(* of the lines read that are not blank, not reserved and hold a code,     *)
(* each called with the code of its line and the flag's value when the     *)
(* line was read.                                                          *)
(***************************************************************************)
C13_Session ==
    LET n == Len(entered)
    IN  /\ \A i \in 1..(n - 1) : ~IsQuitLine(entered[i])
        /\ upc = "exited" <=> (n > 0 /\ IsQuitLine(entered[n]))
        /\ debugMode = FlagAt(n + 1)
        /\ \A k \in 1..Len(lookups) :
              LET i == lookups[k][3]
              IN  /\ i \in 1..n
                  /\ LooksUp(entered[i])
                  /\ lookups[k][1] = extract_gift_code(Strip(entered[i]))
                  /\ lookups[k][2] = FlagAt(i)
                  /\ k > 1 => lookups[k - 1][3] < i
        /\ \A i \in 1..n :
              LooksUp(entered[i]) => \E k \in 1..Len(lookups) : lookups[k][3] = i
        /\ upc = "checking" =>
              /\ lookups[Len(lookups)][3] = n
              /\ code = lookups[Len(lookups)][1]
              /\ debug = lookups[Len(lookups)][2]

\* a session that read DEBUG, then a gift URL, then Exit: one lookup, made
\* with the flag on, and a normal end
C13_Witness ==
    /\ upc = "exited"
    /\ Len(entered) = 3
    /\ entered[1] = <<"D","E","B","U","G"," ">>
    /\ entered[3] = <<"E","x","i","t">>
    /\ debugMode
    /\ lookups = << <<Token(MinCodeLen), TRUE, 2>> >>

(***************************************************************************)
(* Reading the delay handed to the batch.                                  *)
(***************************************************************************)
\* the float v is the integer x
EqualsNumber(v, x) == v[1] = "num" /\ v[2] = x * v[3]

\* the float v is a number of the interval [0, 60]
InDelayRange(v) == v[1] = "num" /\ v[2] >= 0 /\ v[2] <= MaxDelay * v[3]

(***************************************************************************)
(* C14: the delay handed to the batch is the entered number clamped to     *)
(* [0, 60]: 0 for an entry below 0, 60 for an entry above 60, the entry    *)
(* itself inside the interval; an empty or non-numeric entry gives the     *)
(* default 2.5; the delay handed over always lies in [0, 60].              *)
(***************************************************************************)
C14_DelayClamped ==
    upc = "bulk_called" =>
        LET entry == Strip(delayInput)
            v == IF entry = <<>> THEN ValueError ELSE ParseFloat(entry)
        IN  /\ v = ValueError => handedDelay = MainDefaultDelay
            /\ (v # ValueError /\ LessThan(v, 0)) => EqualsNumber(handedDelay, 0)
            /\ (v # ValueError /\ GreaterThan(v, MaxDelay)) =>
                  EqualsNumber(handedDelay, MaxDelay)
            /\ (v # ValueError /\ InDelayRange(v)) => handedDelay = v
            /\ InDelayRange(handedDelay)

(***************************************************************************)
(* Reading an extraction.                                                  *)
(***************************************************************************)
\* the places of text where the path of one of the four gift hosts ends
HostEnds(t) ==
    {i + Len(Patterns[k]) : i \in 1..Len(t), k \in 1..Len(Patterns)} \cap
    {e \in 1..(Len(t) + 1) :
        \E k \in 1..Len(Patterns) :
            /\ e - Len(Patterns[k]) >= 1
            /\ SubSeq(t, e - Len(Patterns[k]), e - 1) = Patterns[k]}

IsGiftURL(t) == HostEnds(t) # {}

\* the alphanumeric token of an input: what follows the host path of a gift
\* URL up to the first other character, the trimmed input otherwise
TokenOf(t) ==
    IF IsGiftURL(t)
    THEN LET e == CHOOSE x \in HostEnds(t) : \A y \in HostEnds(t) : x <= y
         IN  SubSeq(t, e, e + AlnumRun(t, e) - 1)
    ELSE Strip(t)

AllAlnum(tok) == \A i \in 1..Len(tok) : tok[i] \in Alnum

(***************************************************************************)
(* C15: extraction returns none or a token of 16 to 25 alphanumeric        *)
(* characters; for a gift URL of one of the four hosts holding a token of  *)
(* 16 to 25 characters it returns that token unchanged; for an input, URL  *)
(* or bare token, whose alphanumeric token is shorter than 16 or longer    *)
(* than 25 characters it returns none.                                     *)
(***************************************************************************)
C15_ExtractLengthBounds ==
    upc = "extracted" =>
        LET tok == TokenOf(inputText)
        IN  /\ \/ extracted = NoCode
               \/ /\ Len(extracted) \in MinCodeLen..MaxCodeLen
                  /\ AllAlnum(extracted)
            /\ (IsGiftURL(inputText) /\ Len(tok) \in MinCodeLen..MaxCodeLen) =>
                  extracted = tok
            /\ (AllAlnum(tok) /\ Len(tok) \notin MinCodeLen..MaxCodeLen) =>
                  extracted = NoCode

(***************************************************************************)
(* Reading the raw response of an outcome.                                 *)
(***************************************************************************)
\* the outcome carries a raw response: the field is there and is not None
HasRaw(r) == "raw_data" \in DOMAIN r /\ r.raw_data # Null

\* the body of the response the lookup returned on
LastBody == log[Len(log)].resp.body

\* no outcome the batch has received or filed carries a raw response
NoRawInReport ==
    /\ \A i \in 1..Len(outcomes) : ~HasRaw(outcomes[i])
    /\ \A c \in Categories : \A k \in 1..Len(results[c]) : ~HasRaw(results[c][k])

(***************************************************************************)
(* C16 as stated: the outcome of a lookup carries the unmodified response  *)
(* body exactly when diagnostic is set; without it the raw-response field  *)
(* is absent for every outcome kind, so no outcome stored in a batch       *)
(* report carries a raw response.                                          *)
(***************************************************************************)
C16_Original ==
    /\ cpc = "returned" =>
          /\ HasRaw(result) <=> debug
          /\ HasRaw(result) => result.raw_data = LastBody
    /\ NoRawInReport

(***************************************************************************)
(* C16 amended: the outcome of a lookup carries the unmodified response    *)
(* body exactly when diagnostic is set and the outcome is CLAIMABLE or     *)
(* CLAIMED, the kinds built from a 200 response; INVALID, RATE_LIMITED and *)
(* ERROR outcomes never carry it; without diagnostic the raw-response      *)
(* field is absent for every outcome kind, so no outcome stored in a batch *)
(* report carries a raw response.                                          *)
(***************************************************************************)
C16_RawResponseOnlyInDiagnostic200 ==
    /\ cpc = "returned" =>
          /\ HasRaw(result) <=> (debug /\ result.status \in {"CLAIMABLE", "CLAIMED"})
          /\ HasRaw(result) => result.raw_data = LastBody
    /\ NoRawInReport

\* an interactive lookup made with the debug flag on that returned a CLAIMED
\* outcome carrying the body of its 200 response
C16_Witness ==
    /\ mode = "session"
    /\ cpc = "returned"
    /\ debug
    /\ result.status = "CLAIMED"
    /\ HasRaw(result)
    /\ result.raw_data = LastBody

(***************************************************************************)
(* C17: 429 responses and transport failures share the one attempt         *)
(* counter: a lookup makes at most maxRetries requests of both kinds       *)
(* together, and the exponent of every backoff sleep, after a 429 or after *)
(* a transport failure, is the number of earlier requests of either kind;  *)
(* when all maxRetries requests met a 429 or a transport failure, in any   *)
(* interleaving, the outcome is decided by the last one alone:             *)
(* RATE_LIMITED after a 429, ERROR after a transport failure.              *)
(***************************************************************************)
C17_SharedAttemptCounter ==
    /\ NumGets <= (IF maxRetries > 0 THEN maxRetries ELSE 0)
    /\ \A j \in 1..(Len(log) - 1) :
          IsSleep(j + 1) =>
              /\ GotStatus(j, 429) =>
                    log[j + 1].secs =
                        Min(RetryAfterOf(log[j].resp) * Pow2(AttemptOf(j)), RateLimitCap)
              /\ GotFailure(j) =>
                    log[j + 1].secs = Min(NetworkBase * Pow2(AttemptOf(j)), NetworkCap)
    /\ ( /\ maxRetries >= 1
         /\ NumGets = maxRetries
         /\ \A j \in 1..Len(log) : IsGet(j) => (GotStatus(j, 429) \/ GotFailure(j)) ) =>
            /\ cpc = "returned"
            /\ IsGet(Len(log))
            /\ GotStatus(Len(log), 429) => result.status = "RATE_LIMITED"
            /\ GotFailure(Len(log)) =>
                  /\ result.status = "ERROR"
                  /\ result.message[1] = "Network error"

\* a lookup with four attempts that met a failure, a 429, a failure and a
\* 429: it slept 2, 6 and 8 seconds and ended RATE_LIMITED
C17_Witness ==
    /\ cpc = "returned"
    /\ maxRetries = 4
    /\ Len(log) = 7
    /\ GotFailure(1) /\ log[2].secs = 2
    /\ GotStatus(3, 429) /\ log[3].resp.retryAfter = Absent /\ log[4].secs = 6
    /\ GotFailure(5) /\ log[6].secs = 8
    /\ GotStatus(7, 429)
    /\ result.status = "RATE_LIMITED"

(***************************************************************************)
(* C18: a lookup never sleeps after its last request: every backoff sleep  *)
(* comes right after a request and right before the next one, which is     *)
(* made or, while the lookup is still running, about to be made; a lookup  *)
(* that has ended after some request, on a retryable condition or on a     *)
(* terminal response, has slept once less than it has requested; a lookup  *)
(* sleeps at most maxRetries - 1 times.                                    *)
(***************************************************************************)
C18_NoSleepAfterLastRequest ==
    /\ \A j \in 1..Len(log) :
          IsSleep(j) =>
              /\ j > 1 /\ IsGet(j - 1)
              /\ j < Len(log) => IsGet(j + 1)
              /\ j = Len(log) => (cpc = "loop" /\ attempt < maxRetries)
    /\ (Finished /\ log # <<>>) =>
          /\ IsGet(Len(log))
          /\ NumSleeps = NumGets - 1
    /\ NumSleeps <= (IF maxRetries > 1 THEN maxRetries - 1 ELSE 0)

\* a lookup that ended on a 404 after a 429 and a transport failure: three
\* requests, two sleeps, none after the 404
C18_Witness ==
    /\ cpc = "returned"
    /\ result.status = "INVALID"
    /\ Len(log) = 5
    /\ GotStatus(1, 429) /\ IsSleep(2)
    /\ GotFailure(3) /\ IsSleep(4)
    /\ GotStatus(5, 404)
    /\ NumSleeps = 2 /\ NumGets = 3

(***************************************************************************)
(* C19: a lookup returns the fallback ERROR "Max retries exceeded" exactly *)
(* when maxRetries <= 0, and then without any request or sleep; for        *)
(* maxRetries >= 1 the loop never runs out, whatever the responses: the    *)
(* lookup ends from inside the loop and the fallback is not reached.       *)
(***************************************************************************)
C19_FallbackOnlyWithoutAttempts ==
    /\ cpc = "returned" =>
          (result.message = <<"Max retries exceeded">> <=> maxRetries <= 0)
    /\ maxRetries <= 0 =>
          /\ log = <<>>
          /\ cpc \in {"loop", "returned"}
    /\ maxRetries >= 1 =>
          /\ cpc = "loop" => attempt < maxRetries
          /\ Finished => (log # <<>> /\ IsGet(Len(log)))

\* a lookup called with max_retries = -1: the fallback outcome, no request
C19_Witness ==
    /\ cpc = "returned"
    /\ maxRetries < 0
    /\ result = MaxRetriesExceeded(code)
    /\ result.status = "ERROR"
    /\ log = <<>>

====
